---- MODULE Spec2Model ----
(***************************************************************************)
(* Model of the foodgram backend (src/backend): the relational store of    *)
(* recipes, recipe-ingredient rows, favorites, shopping carts and          *)
(* subscriptions, and the request handlers of api/views.py with the        *)
(* serializers of api/serializers.py and the exporter of api/utils.py.     *)
(*                                                                         *)
(* Framework semantics the handlers rest on (Django / DRF):                *)
(*  - serializer.is_valid(raise_exception=True) raises ValidationError,    *)
(*    which DRF's exception handler turns into HTTP 400; Http404 becomes   *)
(*    404; any other exception leaves the view unhandled: HTTP 500;        *)
(*  - ModelSerializer.create/update assert that validated_data holds no    *)
(*    writable nested serializer (raise_errors_on_nested_writes);          *)
(*  - the database runs in Django's default autocommit mode: no handler    *)
(*    in src/ opens transaction.atomic, so each ORM write is committed     *)
(*    as it is made;                                                       *)
(*  - the database enforces UniqueConstraint and CheckConstraint with      *)
(*    IntegrityError;                                                      *)
(*  - Model.delete() collects the rows that refer to the deleted object    *)
(*    and treats each as its ForeignKey's on_delete says;                  *)
(*  - get_object() runs the view's permission classes on the object, and   *)
(*    a refusal is PermissionDenied: HTTP 403.                             *)
(* Each handler is modelled as the code of its module reads once the       *)
(* module is loaded; names are bound as the import lines bind them.        *)
(***************************************************************************)
EXTENDS Integers, Sequences, FiniteSets, TLC

\* ----------------------------------------------------------------- bounds
NumUsers == 3
NumRecipes == 2
NumIngredients == 2
NumTags == 1
MaxAmount == 2
MaxLines == 2
MaxRows == 3
MaxCookingTime == 2

Users == 1..NumUsers
RecipeIds == 1..NumRecipes
IngredientIds == 1..NumIngredients
TagIds == 1..NumTags
\* ids a request may name that no row of the store carries
MissingRecipeId == NumRecipes + 1
MissingIngredientId == NumIngredients + 1
MissingTagId == NumTags + 1
MissingUserId == NumUsers + 1

Null == [kind |-> "none"]

\* the requests that are followed step by step while they run side by side
NumRacers == 2
Racers == 1..NumRacers

VARIABLES
    tagsExist,      \* Tag rows
    recipes,        \* Recipe rows (ids)
    cooking_time,   \* Recipe.cooking_time
    rtags,          \* Recipe.tags (many-to-many)
    rows,           \* RecipeIngredient rows
    favorites,      \* Favorite rows <<user, recipe>>
    carts,          \* ShoppingCart rows <<user, recipe>>
    subs,           \* Subscription rows <<user, author>>
    upd,            \* a PATCH /recipes/{id}/ between its two writes, or Null
    before,         \* the store as the request in flight (or last answered) found it
    resp,           \* the last response
    queryset,       \* the aggregate rows handed to the rendering code
    doc,            \* the canvas the rendering code produced
    drfConstraintValidators,  \* build: DRF derives validators from UniqueConstraint
    users,          \* User rows (ids)
    author,         \* Recipe.author
    ingredientsExist,  \* Ingredient rows (ids)
    racers,         \* concurrent Add / Subscribe requests, each between its steps
    tbl             \* Favorite, ShoppingCart and Subscription rows, one by one

storeVars == <<tagsExist, recipes, cooking_time, rtags, rows, favorites, carts, subs>>
renderVars == <<queryset, doc>>
vars == <<tagsExist, recipes, cooking_time, rtags, rows, favorites, carts, subs,
          upd, before, resp, queryset, doc, drfConstraintValidators,
                   users, author, ingredientsExist, racers, tbl>>

Store == [tagsExist |-> tagsExist, recipes |-> recipes, cooking_time |-> cooking_time,
          rtags |-> rtags, rows |-> rows, favorites |-> favorites, carts |-> carts,
          subs |-> subs, users |-> users, author |-> author,
          ingredientsExist |-> ingredientsExist]

\* ------------------------------------------------------------- responses
\* views.py line 4 binds Response to requests.Response, whose constructor
\* takes no argument: Response(data, status=...) raises TypeError.
ResponseClass == "requests.Response"

ViewResponse(status) ==
    IF ResponseClass = "rest_framework.response.Response"
    THEN [status |-> status, exc |-> "none"]
    ELSE [status |-> 500, exc |-> "TypeError"]

\* what DRF's exception handler / Django's handler make of an exception
Raised(exc) ==
    CASE exc = "ValidationError" -> [status |-> 400, exc |-> exc]
      [] exc = "Http404" -> [status |-> 404, exc |-> exc]
      [] exc = "PermissionDenied" -> [status |-> 403, exc |-> exc]
      [] OTHER -> [status |-> 500, exc |-> exc]

\* a response built by DRF's own mixins (rest_framework.response.Response)
MixinResponse(status) == [status |-> status, exc |-> "none"]

Answer(op, args, r) == [kind |-> "resp", op |-> op, args |-> args,
                        status |-> r.status, exc |-> r.exc]

\* ------------------------------------------------- favorites and the cart
\* ModelSerializer.is_valid of FavoriteSerializer / ShoppingCartSerializer
\* (fields user, recipe; no validator declared) followed by save(): the pair
\* is refused by a validator only where the installed DRF derives one from
\* the model's UniqueConstraint; otherwise the INSERT meets the constraint.
SaveUniquePair(table, u, r) ==
    IF <<u, r>> \in table
    THEN IF drfConstraintValidators
         THEN [table |-> table, exc |-> "ValidationError"]
         ELSE [table |-> table, exc |-> "IntegrityError"]
    ELSE [table |-> table \cup {<<u, r>>}, exc |-> "none"]

\* RecipeViewSet.favorite_adding: is_valid, save, Response(data, 201)
favorite_adding(u, r) ==
    LET s == SaveUniquePair(favorites, u, r)
    IN  [table |-> s.table,
         r |-> IF s.exc = "none" THEN ViewResponse(201) ELSE Raised(s.exc)]

\* RecipeViewSet.delete_from_favorite
delete_from_favorite(u, r) ==
    IF <<u, r>> \in favorites
    THEN [table |-> favorites \ {<<u, r>>}, r |-> ViewResponse(204)]
    ELSE [table |-> favorites, r |-> ViewResponse(404)]

\* RecipeViewSet.add_to_shopping_cart
add_to_shopping_cart(u, r) ==
    LET s == SaveUniquePair(carts, u, r)
    IN  [table |-> s.table,
         r |-> IF s.exc = "none" THEN ViewResponse(201) ELSE Raised(s.exc)]

\* RecipeViewSet.delete_from_shopping_cart
delete_from_shopping_cart(u, r) ==
    IF <<u, r>> \in carts
    THEN [table |-> carts \ {<<u, r>>}, r |-> ViewResponse(204)]
    ELSE [table |-> carts, r |-> ViewResponse(404)]

\* the methods the class body of RecipeViewSet defines
RecipeViewSetMethods ==
    {"get_serializer_class", "perform_create", "favorite_adding",
     "delete_from_favorite", "favorite", "download_shopping_cart",
     "add_to_shopping_cart", "delete_from_shopping_cart", "shopping_cart"}

\* the attribute RecipeViewSet.favorite reads for a DELETE (views.py line 168)
FavoriteDeleteCallee == "delete_from_favorit"

\* the attribute RecipeViewSet.shopping_cart reads for a DELETE (line 207)
CartDeleteCallee == "delete_from_shopping_cart"

\* RecipeViewSet.favorite, request.method == 'POST'
favorite_POST(u, pk) ==
    /\ before' = Store
    /\ IF pk \notin recipes
       THEN /\ resp' = Answer("favorite_POST", <<u, pk>>, Raised("Http404"))
            /\ UNCHANGED favorites
       ELSE LET o == favorite_adding(u, pk)
            IN  /\ favorites' = o.table
                /\ resp' = Answer("favorite_POST", <<u, pk>>, o.r)
    /\ UNCHANGED <<tagsExist, recipes, cooking_time, rtags, rows, carts, subs,
                   upd, queryset, doc, drfConstraintValidators,
                   users, author, ingredientsExist, racers, tbl>>

\* RecipeViewSet.favorite, request.method == 'DELETE'
favorite_DELETE(u, pk) ==
    /\ before' = Store
    /\ IF pk \notin recipes
       THEN /\ resp' = Answer("favorite_DELETE", <<u, pk>>, Raised("Http404"))
            /\ UNCHANGED favorites
       ELSE IF FavoriteDeleteCallee \notin RecipeViewSetMethods
       THEN /\ resp' = Answer("favorite_DELETE", <<u, pk>>, Raised("AttributeError"))
            /\ UNCHANGED favorites
       ELSE LET o == delete_from_favorite(u, pk)
            IN  /\ favorites' = o.table
                /\ resp' = Answer("favorite_DELETE", <<u, pk>>, o.r)
    /\ UNCHANGED <<tagsExist, recipes, cooking_time, rtags, rows, carts, subs,
                   upd, queryset, doc, drfConstraintValidators,
                   users, author, ingredientsExist, racers, tbl>>

\* RecipeViewSet.shopping_cart, request.method == 'POST'
shopping_cart_POST(u, pk) ==
    /\ before' = Store
    /\ IF pk \notin recipes
       THEN /\ resp' = Answer("shopping_cart_POST", <<u, pk>>, Raised("Http404"))
            /\ UNCHANGED carts
       ELSE LET o == add_to_shopping_cart(u, pk)
            IN  /\ carts' = o.table
                /\ resp' = Answer("shopping_cart_POST", <<u, pk>>, o.r)
    /\ UNCHANGED <<tagsExist, recipes, cooking_time, rtags, rows, favorites, subs,
                   upd, queryset, doc, drfConstraintValidators,
                   users, author, ingredientsExist, racers, tbl>>

\* RecipeViewSet.shopping_cart, request.method == 'DELETE'
shopping_cart_DELETE(u, pk) ==
    /\ before' = Store
    /\ IF pk \notin recipes
       THEN /\ resp' = Answer("shopping_cart_DELETE", <<u, pk>>, Raised("Http404"))
            /\ UNCHANGED carts
       ELSE IF CartDeleteCallee \notin RecipeViewSetMethods
       THEN /\ resp' = Answer("shopping_cart_DELETE", <<u, pk>>, Raised("AttributeError"))
            /\ UNCHANGED carts
       ELSE LET o == delete_from_shopping_cart(u, pk)
            IN  /\ carts' = o.table
                /\ resp' = Answer("shopping_cart_DELETE", <<u, pk>>, o.r)
    /\ UNCHANGED <<tagsExist, recipes, cooking_time, rtags, rows, favorites, subs,
                   upd, queryset, doc, drfConstraintValidators,
                   users, author, ingredientsExist, racers, tbl>>

\* ---------------------------------------------------------- subscriptions
\* SubscriptionSerializer.is_valid (PrimaryKeyRelatedField author, the declared
\* UniqueTogetherValidator) and save(): INSERT under the table's
\* UniqueConstraint and CheckConstraint ~Q(user=F('author')).
SubscriptionSave(u, a) ==
    IF a \notin users THEN [table |-> subs, exc |-> "ValidationError"]
    ELSE IF <<u, a>> \in subs THEN [table |-> subs, exc |-> "ValidationError"]
    ELSE IF u = a THEN [table |-> subs, exc |-> "IntegrityError"]
    ELSE [table |-> subs \cup {<<u, a>>}, exc |-> "none"]

\* SubscribeView.post
SubscribeView_post(u, id) ==
    /\ before' = Store
    /\ LET s == SubscriptionSave(u, id)
       IN  /\ subs' = s.table
           /\ resp' = Answer("subscribe_POST", <<u, id>>,
                             IF s.exc = "none" THEN ViewResponse(201) ELSE Raised(s.exc))
    /\ UNCHANGED <<tagsExist, recipes, cooking_time, rtags, rows, favorites, carts,
                   upd, queryset, doc, drfConstraintValidators,
                   users, author, ingredientsExist, racers, tbl>>

\* SubscribeView.delete
SubscribeView_delete(u, id) ==
    /\ before' = Store
    /\ IF id \notin users
       THEN /\ resp' = Answer("subscribe_DELETE", <<u, id>>, Raised("Http404"))
            /\ UNCHANGED subs
       ELSE IF <<u, id>> \in subs
       THEN /\ subs' = subs \ {<<u, id>>}
            /\ resp' = Answer("subscribe_DELETE", <<u, id>>, ViewResponse(204))
       ELSE /\ resp' = Answer("subscribe_DELETE", <<u, id>>, ViewResponse(404))
            /\ UNCHANGED subs
    /\ UNCHANGED <<tagsExist, recipes, cooking_time, rtags, rows, favorites, carts,
                   upd, queryset, doc, drfConstraintValidators,
                   users, author, ingredientsExist, racers, tbl>>

\* ------------------------------------------------------------ recipe rows
RowsOf(r) == {x \in rows : x.recipe = r}

\* the (ingredient, amount) pairs of a recipe's RecipeIngredient rows
PairsOf(r) == {<<x.ingredient, x.amount>> : x \in RowsOf(r)}

\* the (ingredientId, amount) pairs of a request's ingredient lines
LinePairs(lines) == {<<lines[i].id, lines[i].amount>> : i \in 1..Len(lines)}

HasRepeatedId(lines) ==
    \E i, j \in 1..Len(lines) : i # j /\ lines[i].id = lines[j].id

\* request bodies
LineValues == [id : IngredientIds \cup {MissingIngredientId}, amount : 0..MaxAmount]
LineSeqs == UNION {[1..n -> LineValues] : n \in 0..MaxLines}
TagInputs == SUBSET (TagIds \cup {MissingTagId})
CookingTimeInputs == 0..MaxCookingTime
PatchFields == SUBSET {"cooking_time", "tags", "ingredients"}

\* ---------------------------------------------- CreateRecipeSerializer
\* The names the class body of CreateRecipeSerializer binds (lines 205-212):
\* four fields and Meta. validate, create_ingredients, create, update and
\* to_representation are bound inside Meta (lines 225-278), so the serializer
\* inherits ModelSerializer's validate, create, update and to_representation.
CreateRecipeSerializerBody == {"author", "ingredients", "tags", "image", "Meta"}

CreateRecipeSerializerMetaBody ==
    {"model", "fields", "validate", "create_ingredients", "create", "update",
     "to_representation"}

\* ingredients = RecipeIngredientSerializer(many=True): id, name and
\* measurement_unit are ReadOnlyField; amount is the model's
\* PositiveSmallIntegerField with MinValueValidator(1).
IngredientsFieldValid(lines) == \A i \in 1..Len(lines) : lines[i].amount >= 1

\* what the nested serializer keeps of each line: the amount alone
IngredientsValidated(lines) == [i \in 1..Len(lines) |-> [amount |-> lines[i].amount]]

\* tags = PrimaryKeyRelatedField(queryset=Tag.objects.all(), many=True)
TagsFieldValid(tags) == tags \subseteq tagsExist

\* a cooking_time field that accepts every integer
CookingTimeAny(ct) == ct \in Int

\* Recipe.cooking_time: MinValueValidator(1)
CookingTimeValid(ct) == ct >= 1

\* run_validation of the fields a request supplies
FieldsValid(fields, ct, tags, lines) ==
    /\ "cooking_time" \in fields => CookingTimeValid(ct)
    /\ "tags" \in fields => TagsFieldValid(tags)
    /\ "ingredients" \in fields => IngredientsFieldValid(lines)

\* ModelSerializer.create / update: raise_errors_on_nested_writes asserts that
\* no writable nested serializer field is in validated_data
NestedWriteAsserts(fields) == "ingredients" \in fields

AllFields == {"cooking_time", "tags", "ingredients"}

\* Recipe.ingredients, the many-to-many field of models.py line 58. It names no
\* through model, so its rows are not the RecipeIngredient rows. Recipe 1 was
\* entered with one ingredient, the other recipes with none.
Recipe_ingredients(r) == IF r = 1 THEN {1} \cap ingredientsExist ELSE {}

\* serializer.data of CreateRecipeSerializer after a write. to_representation
\* is bound inside Meta as well, so ModelSerializer's runs: it hands each
\* Ingredient of instance.ingredients to RecipeIngredientSerializer, whose
\* required field amount finds no attribute amount on an Ingredient.
RecipeRepresentation(r, status) ==
    IF Recipe_ingredients(r) = {}
    THEN MixinResponse(status)
    ELSE Raised("AttributeError")

\* an update that writes the tags of every request, supplied or not
m2m_fields_always(fields) == fields \subseteq AllFields

\* ModelSerializer.update: the many-to-many fields found in validated_data are
\* set after instance.save(); of the fields followed here that is tags
m2m_fields(fields) == "tags" \in fields

\* RecipeViewSet.permission_classes (views.py line 120)
RecipePermissionClasses == {"IsAuthenticatedOrReadOnly"}

\* get_object's check_object_permissions for the authenticated user u:
\* IsAuthenticatedOrReadOnly inherits BasePermission.has_object_permission,
\* which grants every object; no class of the tuple compares u with the author
has_object_permission(u, pk) ==
    \A c \in RecipePermissionClasses : c = "IsAuthenticatedOrReadOnly"

\* POST /recipes/: CreateModelMixin.create, perform_create, serializer.save
RecipeViewSet_create(u, ct, tags, lines) ==
    /\ upd = Null
    /\ "create" \notin CreateRecipeSerializerBody
    /\ "validate" \notin CreateRecipeSerializerBody
    /\ before' = Store
    /\ LET args == [user |-> u, recipe |-> MissingRecipeId, fields |-> AllFields,
                    cooking_time |-> ct, tags |-> tags, lines |-> lines]
       IN  resp' = Answer("create", args,
                     IF ~FieldsValid(AllFields, ct, tags, lines)
                     THEN Raised("ValidationError")
                     ELSE IF NestedWriteAsserts(AllFields)
                     THEN Raised("AssertionError")
                     ELSE MixinResponse(201))
    /\ UNCHANGED <<storeVars, upd, renderVars, drfConstraintValidators,
                   users, author, ingredientsExist, racers, tbl>>

\* PATCH /recipes/{id}/: UpdateModelMixin.partial_update up to and including
\* ModelSerializer.update's instance.save(); the many-to-many write follows
\* in RecipeViewSet_update_m2m.
RecipeViewSet_partial_update(u, pk, fields, ct, tags, lines) ==
    /\ upd = Null
    /\ "update" \notin CreateRecipeSerializerBody
    /\ "validate" \notin CreateRecipeSerializerBody
    /\ before' = Store
    /\ LET args == [user |-> u, recipe |-> pk, fields |-> fields,
                    cooking_time |-> ct, tags |-> tags, lines |-> lines]
       IN  IF pk \notin recipes
           THEN /\ resp' = Answer("partial_update", args, Raised("Http404"))
                /\ UNCHANGED <<cooking_time, upd>>
           ELSE IF ~has_object_permission(u, pk)
           THEN /\ resp' = Answer("partial_update", args, Raised("PermissionDenied"))
                /\ UNCHANGED <<cooking_time, upd>>
           ELSE IF ~FieldsValid(fields, ct, tags, lines)
           THEN /\ resp' = Answer("partial_update", args, Raised("ValidationError"))
                /\ UNCHANGED <<cooking_time, upd>>
           ELSE IF NestedWriteAsserts(fields)
           THEN /\ resp' = Answer("partial_update", args, Raised("AssertionError"))
                /\ UNCHANGED <<cooking_time, upd>>
           ELSE /\ cooking_time' = IF "cooking_time" \in fields
                                   THEN [cooking_time EXCEPT ![pk] = ct]
                                   ELSE cooking_time
                /\ IF m2m_fields(fields)
                   THEN /\ upd' = [kind |-> "update", args |-> args]
                        /\ resp' = Null
                   ELSE /\ upd' = Null
                        /\ resp' = Answer("partial_update", args,
                                          RecipeRepresentation(pk, 200))
    /\ UNCHANGED <<tagsExist, recipes, rtags, rows, favorites, carts, subs,
                   renderVars, drfConstraintValidators,
                   users, author, ingredientsExist, racers, tbl>>

\* the rest of ModelSerializer.update: field.set(value) for the many-to-many
\* tags, then the mixin's Response
RecipeViewSet_update_m2m ==
    /\ upd # Null
    /\ upd' = Null
    /\ IF upd.args.tags \subseteq tagsExist /\ upd.args.recipe \in recipes
       THEN /\ rtags' = [rtags EXCEPT ![upd.args.recipe] = upd.args.tags]
            /\ resp' = Answer("partial_update", upd.args,
                              RecipeRepresentation(upd.args.recipe, 200))
       ELSE /\ resp' = Answer("partial_update", upd.args, Raised("IntegrityError"))
            /\ UNCHANGED rtags
    /\ UNCHANGED <<tagsExist, recipes, cooking_time, rows, favorites, carts, subs,
                   before, renderVars, drfConstraintValidators,
                   users, author, ingredientsExist, racers, tbl>>

\* TagAdmin: a Tag row is deleted; its recipe_tags links go with it
TagAdmin_delete(t) ==
    /\ t \in tagsExist
    /\ tagsExist' = tagsExist \ {t}
    /\ rtags' = [r \in RecipeIds |-> rtags[r] \ {t}]
    /\ UNCHANGED <<recipes, cooking_time, rows, favorites, carts, subs,
                   upd, before, resp, renderVars, drfConstraintValidators,
                   users, author, ingredientsExist, racers, tbl>>

\* ------------------------------------------------------------ initial store
\* recipe 1: ingredient 1 x 2; recipe 2: ingredient 1 x 1, ingredient 2 x 1
FixtureRows ==
    {[pk |-> 1, recipe |-> 1, ingredient |-> 1, amount |-> 2],
     [pk |-> 2, recipe |-> 2, ingredient |-> 1, amount |-> 1],
     [pk |-> 3, recipe |-> 2, ingredient |-> 2, amount |-> 1]}

\* recipe 1 is user 1's, recipe 2 is user 2's, and so on
FixtureAuthor == [r \in RecipeIds |-> ((r - 1) % NumUsers) + 1]

InitCommon ==
    /\ tagsExist = TagIds
    /\ recipes = RecipeIds
    /\ cooking_time = [r \in RecipeIds |-> 1]
    /\ rtags = [r \in RecipeIds |-> {1}]
    /\ favorites = {}
    /\ carts = {}
    /\ subs = {}
    /\ upd = Null
    /\ resp = Null
    /\ queryset = <<>>
    /\ doc = Null
    /\ drfConstraintValidators \in BOOLEAN
    /\ users = Users
    /\ author = FixtureAuthor
    /\ ingredientsExist = IngredientIds
    /\ racers = [c \in Racers |-> Null]
    /\ tbl = {}

InitFixture ==
    /\ InitCommon
    /\ rows = FixtureRows
    /\ before = Store

\* --------------------------------------------- recipe create and update
\* request bodies of POST /recipes/: every ingredient-line sequence with valid
\* other fields, and every cooking time and tag set with one valid line
CreateBodies ==
    {[cooking_time |-> 1, tags |-> {1}, lines |-> l] : l \in LineSeqs}
    \cup {[cooking_time |-> ct, tags |-> t, lines |-> <<[id |-> 1, amount |-> 1]>>] :
             ct \in CookingTimeInputs, t \in TagInputs}

\* request bodies of PATCH /recipes/{id}/: every subset of the fields; a field
\* that is not supplied carries a placeholder the handler never reads
PatchBodies ==
    {[fields |-> f, cooking_time |-> ct, tags |-> t, lines |-> <<>>] :
        f \in SUBSET {"cooking_time", "tags"}, ct \in CookingTimeInputs, t \in TagInputs}
    \cup {[fields |-> {"ingredients"}, cooking_time |-> 0, tags |-> {}, lines |-> l] :
             l \in LineSeqs}
    \cup {[fields |-> AllFields, cooking_time |-> 2, tags |-> {}, lines |-> l] :
             l \in {x \in LineSeqs : Len(x) <= 1}}

PatchBodyNormal(pk, b) ==
    /\ "cooking_time" \notin b.fields => b.cooking_time = 0
    /\ "tags" \notin b.fields => b.tags = {}
    /\ pk = MissingRecipeId => b.fields = {}

\* the authenticated user whose recipe requests are followed: the author of
\* recipe 1 and not of recipe 2
RecipeClients == {1}

NextRecipe ==
    \/ \E u \in RecipeClients \cap users, b \in CreateBodies :
          RecipeViewSet_create(u, b.cooking_time, b.tags, b.lines)
    \/ \E u \in RecipeClients \cap users, pk \in RecipeIds \cup {MissingRecipeId} :
          \E b \in {x \in PatchBodies : PatchBodyNormal(pk, x)} :
          RecipeViewSet_partial_update(u, pk, b.fields, b.cooking_time, b.tags, b.lines)
    \/ RecipeViewSet_update_m2m
    \/ \E t \in TagIds : TagAdmin_delete(t)

SpecRecipe == InitFixture /\ [][NextRecipe]_vars

\* ----------------------------------------------- favorites and the cart
NextToggle ==
    \/ \E u \in users, pk \in RecipeIds \cup {MissingRecipeId} : favorite_POST(u, pk)
    \/ \E u \in users, pk \in RecipeIds \cup {MissingRecipeId} : favorite_DELETE(u, pk)
    \/ \E u \in users, pk \in RecipeIds \cup {MissingRecipeId} : shopping_cart_POST(u, pk)
    \/ \E u \in users, pk \in RecipeIds \cup {MissingRecipeId} : shopping_cart_DELETE(u, pk)

SpecToggle == InitFixture /\ [][NextToggle]_vars

\* ---------------------------------------------------------- subscriptions
NextSubscribe ==
    \/ \E u \in users, id \in Users \cup {MissingUserId} : SubscribeView_post(u, id)
    \/ \E u \in users, id \in Users \cup {MissingUserId} : SubscribeView_delete(u, id)

SpecSubscribe == InitFixture /\ [][NextSubscribe]_vars

\* ------------------------------------------------- shopping-list export
\* The names each model answers to in an ORM lookup: its fields, and the
\* related_name of every ForeignKey / ManyToManyField that points at it
\* (recipes/models.py). <<model, name, target>>; target "" for a column.
OrmNames ==
    {<<"RecipeIngredient", "id", "">>,
     <<"RecipeIngredient", "ingredients", "Ingredient">>,
     <<"RecipeIngredient", "recipe", "Recipe">>,
     <<"RecipeIngredient", "amount", "">>,
     <<"Recipe", "id", "">>, <<"Recipe", "author", "User">>,
     <<"Recipe", "name", "">>, <<"Recipe", "text", "">>,
     <<"Recipe", "ingredients", "Ingredient">>, <<"Recipe", "tags", "Tag">>,
     <<"Recipe", "cooking_time", "">>, <<"Recipe", "pub_date", "">>,
     <<"Recipe", "recipe", "RecipeIngredient">>,
     <<"Recipe", "favorites", "Favorite">>,
     <<"Recipe", "cart", "ShoppingCart">>,
     <<"Ingredient", "id", "">>, <<"Ingredient", "name", "">>,
     <<"Ingredient", "measurement_unit", "">>,
     <<"Ingredient", "ingredient", "RecipeIngredient">>,
     <<"Ingredient", "recipes", "Recipe">>,
     <<"ShoppingCart", "id", "">>, <<"ShoppingCart", "user", "User">>,
     <<"ShoppingCart", "recipe", "Recipe">>,
     <<"Favorite", "id", "">>, <<"Favorite", "user", "User">>,
     <<"Favorite", "recipe", "Recipe">>,
     <<"Tag", "id", "">>, <<"Tag", "name", "">>, <<"Tag", "color", "">>,
     <<"Tag", "slug", "">>, <<"Tag", "recipes", "Recipe">>,
     <<"User", "id", "">>, <<"User", "recipes", "Recipe">>,
     <<"User", "user_favorite", "Favorite">>, <<"User", "user_cart", "ShoppingCart">>}

\* whether the ORM resolves the lookup path from the model; an unresolved
\* path raises FieldError when the query is built
RECURSIVE Resolves(_, _)
Resolves(model, path) ==
    IF Len(path) = 0 THEN TRUE
    ELSE \E t \in OrmNames :
            /\ t[1] = model
            /\ t[2] = Head(path)
            /\ (Len(path) = 1 \/ (t[3] # "" /\ Resolves(t[3], Tail(path))))

\* the lookups of download_ingredients_pdf's query (utils.py lines 18-22)
CartFilterPath == <<"recipe", "shopping_cart", "user">>
ValuesPaths == {<<"ingredient", "name">>, <<"ingredient", "measurement_unit">>}

QueryResolves ==
    /\ Resolves("RecipeIngredient", CartFilterPath)
    /\ \A p \in ValuesPaths : Resolves("RecipeIngredient", p)

\* Ingredient.name and Ingredient.measurement_unit of the ingredient rows
IngredientName(i) == i
IngredientUnit(i) == 1

RECURSIVE SumAmounts(_)
SumAmounts(S) ==
    IF S = {} THEN 0
    ELSE LET x == CHOOSE y \in S : TRUE
         IN  x.amount + SumAmounts(S \ {x})

\* filter(recipe in the user's cart).values(name, unit).annotate(Sum('amount')):
\* one row per (name, unit) among the joined rows
CartRows(u) == {x \in rows : <<u, x.recipe>> \in carts}

GroupBySum(u) ==
    {[name |-> k[1], unit |-> k[2],
      total_amount |-> SumAmounts({x \in CartRows(u) :
                         <<IngredientName(x.ingredient), IngredientUnit(x.ingredient)>> = k})] :
       k \in {<<IngredientName(x.ingredient), IngredientUnit(x.ingredient)>> : x \in CartRows(u)}}

\* the orders in which a query without order_by may return a set of rows
Orderings(S) ==
    {q \in [1..Cardinality(S) -> S] : \A i, j \in 1..Cardinality(S) : i # j => q[i] # q[j]}

\* rendering constants of download_ingredients_pdf
YStart == 780
LineStep == 15
PageBottom == 30
YNewPage == 800

EmptyCanvas == [kind |-> "canvas", title |-> FALSE, lines |-> <<>>,
                emptyText |-> FALSE, pages |-> 0, y |-> YStart, saved |-> FALSE]

\* one pass of the body of "for item in queryset" (utils.py lines 30-51), up to
\* the return that ends the body
RenderItem(c, item) ==
    LET drawn == [c EXCEPT !.lines = Append(c.lines, item), !.y = c.y - LineStep]
        paged == IF drawn.y < PageBottom
                 THEN [drawn EXCEPT !.pages = drawn.pages + 1, !.y = YNewPage]
                 ELSE [drawn EXCEPT !.emptyText = TRUE]
    IN  [paged EXCEPT !.pages = paged.pages + 1, !.saved = TRUE]

\* utils.py lines 28-51: "if queryset:" draws the title and enters the loop,
\* whose body ends in "return FileResponse(...)": the body runs for the first
\* row only. With an empty queryset the function falls off its end and
\* returns None.
Render(q) ==
    IF Len(q) = 0
    THEN [canvas |-> EmptyCanvas, returns |-> "None"]
    ELSE [canvas |-> RenderItem([EmptyCanvas EXCEPT !.title = TRUE], q[1]),
          returns |-> "FileResponse"]

\* what Django makes of a view's return value
ViewReturn(returns) ==
    IF returns = "FileResponse" THEN [status |-> 200, exc |-> "none"]
    ELSE Raised("ValueError")

\* api/utils.py download_ingredients_pdf(request), called for user u; order is
\* the order in which the database returns the aggregate rows
download_ingredients_pdf(u, order) ==
    /\ before' = Store
    /\ IF ~QueryResolves
       THEN /\ queryset' = <<>>
            /\ doc' = Null
            /\ resp' = Answer("download_ingredients_pdf", <<u>>, Raised("FieldError"))
       ELSE /\ queryset' = order
            /\ doc' = Render(order).canvas
            /\ resp' = Answer("download_ingredients_pdf", <<u>>,
                              ViewReturn(Render(order).returns))
    /\ UNCHANGED <<storeVars, upd, drfConstraintValidators,
                   users, author, ingredientsExist, racers, tbl>>

\* the functions api/utils.py defines
UtilsDefines == {"download_ingredients_pdf"}

\* the name views.py imports from .utils (line 22) and download_shopping_cart
\* calls (line 175). api/utils.py defines no such name, so the import raises
\* ImportError; the other handlers are followed as written, and the failure is
\* charged to the one handler that uses the name.
DownloadCallee == "download_ingredients_txt"

\* RecipeViewSet.download_shopping_cart (GET /recipes/download_shopping_cart/)
download_shopping_cart(u, order) ==
    /\ before' = Store
    /\ IF DownloadCallee \notin UtilsDefines
       THEN /\ UNCHANGED <<queryset, doc>>
            /\ resp' = Answer("download_shopping_cart", <<u>>, Raised("ImportError"))
       ELSE IF ~QueryResolves
       THEN /\ queryset' = <<>>
            /\ doc' = Null
            /\ resp' = Answer("download_shopping_cart", <<u>>, Raised("FieldError"))
       ELSE /\ queryset' = order
            /\ doc' = Render(order).canvas
            /\ resp' = Answer("download_shopping_cart", <<u>>,
                              ViewReturn(Render(order).returns))
    /\ UNCHANGED <<storeVars, upd, drfConstraintValidators,
                   users, author, ingredientsExist, racers, tbl>>

\* the RecipeIngredient tables the export is followed over: up to MaxRows rows
RowValues == [recipe : RecipeIds, ingredient : IngredientIds, amount : 1..MaxAmount]

\* rows are listed in a fixed order of their values: the primary keys of a
\* table carry no meaning of their own
RowRank(v) ==
    ((v.recipe - 1) * NumIngredients + (v.ingredient - 1)) * MaxAmount + v.amount

RowSets ==
    UNION {{{[pk |-> p, recipe |-> f[p].recipe, ingredient |-> f[p].ingredient,
              amount |-> f[p].amount] : p \in 1..n} :
            f \in {g \in [1..n -> RowValues] :
                     \A i, j \in 1..n : i < j => RowRank(g[i]) <= RowRank(g[j])}} :
           n \in 0..MaxRows}

InitExport ==
    /\ InitCommon
    /\ rows \in RowSets
    /\ before = Store

NextExport ==
    \/ \E u \in users, pk \in RecipeIds : shopping_cart_POST(u, pk)
    \/ \E u \in users, pk \in RecipeIds : shopping_cart_DELETE(u, pk)
    \/ \E u \in users : \E order \in Orderings(GroupBySum(u)) :
          download_ingredients_pdf(u, order)
    \/ \E u \in users : \E order \in Orderings(GroupBySum(u)) :
          download_shopping_cart(u, order)

SpecExport == InitExport /\ [][NextExport]_vars

\* ---------------------------------------------------- the rendering code
\* the aggregate rows the rendering code is followed over: sequences of rows
\* with pairwise distinct (name, unit)
MaxTotal == 3

AggregateRows == [name : {IngredientName(i) : i \in IngredientIds},
                  unit : {IngredientUnit(i) : i \in IngredientIds},
                  total_amount : 1..MaxTotal]

AggregateSeqs ==
    UNION {{q \in [1..n -> AggregateRows] :
              \A i, j \in 1..n : i # j => <<q[i].name, q[i].unit>> # <<q[j].name, q[j].unit>>} :
           n \in 0..NumIngredients}

InitRender ==
    /\ InitCommon
    /\ rows = FixtureRows
    /\ before = Store

\* a new aggregate is handed to the rendering code
RenderRequest(q) ==
    /\ queryset' = q
    /\ doc' = Null
    /\ UNCHANGED <<storeVars, upd, before, resp, drfConstraintValidators,
                   users, author, ingredientsExist, racers, tbl>>

\* utils.py lines 28-51 run on the aggregate
RenderCall ==
    /\ doc = Null
    /\ doc' = Render(queryset).canvas
    /\ resp' = Answer("render", <<>>, ViewReturn(Render(queryset).returns))
    /\ UNCHANGED <<storeVars, upd, before, queryset, drfConstraintValidators,
                   users, author, ingredientsExist, racers, tbl>>

NextRender ==
    \/ \E q \in AggregateSeqs : RenderRequest(q)
    \/ RenderCall

SpecRender == InitRender /\ [][NextRender]_vars

\* ------------------------------------ concurrent Add and Subscribe requests
\* The handlers above take a request in one step and hold each table as the
\* set of its pairs. Here the same handlers are followed statement by
\* statement for requests that run side by side, and the tables row by row:
\* a row has a primary key of its own, so two rows of one pair are two rows.

\* a schema in which no model declares a UniqueConstraint
NoUniqueConstraints == {}

\* the models whose Meta.constraints carries a UniqueConstraint on the pair
UniqueConstraints == {"Favorite", "ShoppingCart", "Subscription"}

\* the models whose serializer looks the pair up before the INSERT:
\* SubscriptionSerializer declares a UniqueTogetherValidator; FavoriteSerializer
\* and ShoppingCartSerializer declare none and have one only where DRF derives
\* it from the UniqueConstraint
PairValidated(model) == model = "Subscription" \/ drfConstraintValidators

TblRows(model, u, t) == {x \in tbl : x.model = model /\ x.user = u /\ x.target = t}

RacerDone(model, u, t, saved, r) ==
    [kind |-> "done", model |-> model, user |-> u, target |-> t, saved |-> saved,
     status |-> r.status, exc |-> r.exc]

\* serializer.is_valid(raise_exception=True) of the request c
RacerIsValid(c, model, u, t) ==
    /\ racers[c] = Null
    /\ racers' = [racers EXCEPT ![c] =
          IF PairValidated(model) /\ TblRows(model, u, t) # {}
          THEN RacerDone(model, u, t, FALSE, Raised("ValidationError"))
          ELSE [kind |-> "validated", model |-> model, user |-> u, target |-> t]]
    /\ UNCHANGED <<storeVars, upd, before, resp, renderVars, drfConstraintValidators,
                   users, author, ingredientsExist, tbl>>

\* serializer.save() of the request c, then the handler's Response: the INSERT
\* runs under the table's UniqueConstraint and, for Subscription, under the
\* CheckConstraint ~Q(user=F('author'))
RacerSave(c, model) ==
    /\ racers[c].kind = "validated"
    /\ racers[c].model = model
    /\ LET u == racers[c].user
           t == racers[c].target
       IN  IF model \in UniqueConstraints /\ TblRows(model, u, t) # {}
           THEN /\ racers' = [racers EXCEPT ![c] =
                     RacerDone(model, u, t, FALSE, Raised("IntegrityError"))]
                /\ UNCHANGED tbl
           ELSE IF model = "Subscription" /\ u = t
           THEN /\ racers' = [racers EXCEPT ![c] =
                     RacerDone(model, u, t, FALSE, Raised("IntegrityError"))]
                /\ UNCHANGED tbl
           ELSE /\ tbl' = tbl \cup {[pk |-> Cardinality(tbl) + 1, model |-> model,
                                      user |-> u, target |-> t]}
                /\ racers' = [racers EXCEPT ![c] =
                     RacerDone(model, u, t, TRUE, ViewResponse(201))]
    /\ UNCHANGED <<storeVars, upd, before, resp, renderVars, drfConstraintValidators,
                   users, author, ingredientsExist>>

\* RecipeViewSet.favorite_adding, lines 138-141 and lines 142-144
favorite_adding_is_valid(c, u, r) == RacerIsValid(c, "Favorite", u, r)
favorite_adding_save(c) == RacerSave(c, "Favorite")

\* RecipeViewSet.add_to_shopping_cart, lines 179-182 and lines 183-185
add_to_shopping_cart_is_valid(c, u, r) == RacerIsValid(c, "ShoppingCart", u, r)
add_to_shopping_cart_save(c) == RacerSave(c, "ShoppingCart")

\* SubscribeView.post, lines 72-80 and lines 81-82
SubscribeView_post_is_valid(c, u, id) == RacerIsValid(c, "Subscription", u, id)
SubscribeView_post_save(c) == RacerSave(c, "Subscription")

NextRace ==
    \/ \E c \in Racers, u \in users, r \in recipes : favorite_adding_is_valid(c, u, r)
    \/ \E c \in Racers : favorite_adding_save(c)
    \/ \E c \in Racers, u \in users, r \in recipes : add_to_shopping_cart_is_valid(c, u, r)
    \/ \E c \in Racers : add_to_shopping_cart_save(c)
    \/ \E c \in Racers, u \in users, id \in users : SubscribeView_post_is_valid(c, u, id)
    \/ \E c \in Racers : SubscribeView_post_save(c)

SpecRace == InitFixture /\ [][NextRace]_vars

\* ------------------------------------------------------------- deletion
\* the NULL a nullable ForeignKey column can hold
NullRef == 0

\* a schema in which RecipeIngredient.recipe, declared null=True, is SET_NULL
ForeignKeysSetNull ==
    {[model |-> "Recipe", field |-> "author", on_delete |-> "CASCADE"],
     [model |-> "RecipeIngredient", field |-> "ingredients", on_delete |-> "CASCADE"],
     [model |-> "RecipeIngredient", field |-> "recipe", on_delete |-> "SET_NULL"],
     [model |-> "Favorite", field |-> "user", on_delete |-> "CASCADE"],
     [model |-> "Favorite", field |-> "recipe", on_delete |-> "CASCADE"],
     [model |-> "ShoppingCart", field |-> "user", on_delete |-> "CASCADE"],
     [model |-> "ShoppingCart", field |-> "recipe", on_delete |-> "CASCADE"],
     [model |-> "Subscription", field |-> "user", on_delete |-> "CASCADE"],
     [model |-> "Subscription", field |-> "author", on_delete |-> "CASCADE"]}

\* the ForeignKey fields of recipes/models.py and users/models.py with the
\* on_delete each one declares
ForeignKeys ==
    {[model |-> "Recipe", field |-> "author", on_delete |-> "CASCADE"],
     [model |-> "RecipeIngredient", field |-> "ingredients", on_delete |-> "CASCADE"],
     [model |-> "RecipeIngredient", field |-> "recipe", on_delete |-> "CASCADE"],
     [model |-> "Favorite", field |-> "user", on_delete |-> "CASCADE"],
     [model |-> "Favorite", field |-> "recipe", on_delete |-> "CASCADE"],
     [model |-> "ShoppingCart", field |-> "user", on_delete |-> "CASCADE"],
     [model |-> "ShoppingCart", field |-> "recipe", on_delete |-> "CASCADE"],
     [model |-> "Subscription", field |-> "user", on_delete |-> "CASCADE"],
     [model |-> "Subscription", field |-> "author", on_delete |-> "CASCADE"]}

OnDelete(model, field) ==
    (CHOOSE k \in ForeignKeys : k.model = model /\ k.field = field).on_delete

\* what Model.delete() makes of a row whose field refers to ref, when the
\* objects in gone are deleted: CASCADE deletes the row, SET_NULL keeps it with
\* NULL in the column, anything else leaves it as it is
RefAfter(model, field, ref, gone) ==
    IF ref \notin gone THEN [keep |-> TRUE, ref |-> ref]
    ELSE IF OnDelete(model, field) = "CASCADE" THEN [keep |-> FALSE, ref |-> ref]
    ELSE IF OnDelete(model, field) = "SET_NULL" THEN [keep |-> TRUE, ref |-> NullRef]
    ELSE [keep |-> TRUE, ref |-> ref]

\* a table of (user, target) pairs after the deletion
PairsAfter(table, model, f1, gone1, f2, gone2) ==
    {<<RefAfter(model, f1, p[1], gone1).ref, RefAfter(model, f2, p[2], gone2).ref>> :
        p \in {q \in table : /\ RefAfter(model, f1, q[1], gone1).keep
                             /\ RefAfter(model, f2, q[2], gone2).keep}}

\* the recipes that go with the deleted users and recipes
GoneRecipes(goneUsers, goneRecipes) ==
    goneRecipes \cup {r \in recipes : author[r] \in goneUsers /\
                                       ~RefAfter("Recipe", "author", author[r], goneUsers).keep}

\* Model.delete(): the collector follows every ForeignKey that points at a
\* deleted object; the rows of the recipe_tags table go with their recipe
Delete(goneUsers, goneRecipes, goneIngredients) ==
    LET gr == GoneRecipes(goneUsers, goneRecipes)
    IN  /\ users' = users \ goneUsers
        /\ recipes' = recipes \ gr
        /\ ingredientsExist' = ingredientsExist \ goneIngredients
        /\ author' = [r \in RecipeIds |->
                         RefAfter("Recipe", "author", author[r], goneUsers).ref]
        /\ rtags' = [r \in RecipeIds |-> IF r \in gr THEN {} ELSE rtags[r]]
        /\ rows' = {[x EXCEPT
                        !.recipe = RefAfter("RecipeIngredient", "recipe", x.recipe, gr).ref,
                        !.ingredient = RefAfter("RecipeIngredient", "ingredients",
                                                x.ingredient, goneIngredients).ref] :
                      x \in {y \in rows :
                         /\ RefAfter("RecipeIngredient", "recipe", y.recipe, gr).keep
                         /\ RefAfter("RecipeIngredient", "ingredients",
                                     y.ingredient, goneIngredients).keep}}
        /\ favorites' = PairsAfter(favorites, "Favorite", "user", goneUsers, "recipe", gr)
        /\ carts' = PairsAfter(carts, "ShoppingCart", "user", goneUsers, "recipe", gr)
        /\ subs' = PairsAfter(subs, "Subscription", "user", goneUsers, "author", goneUsers)

\* DELETE /recipes/{id}/: DestroyModelMixin.destroy (get_object,
\* instance.delete(), Response(status=204))
RecipeViewSet_destroy(u, pk) ==
    /\ upd = Null
    /\ before' = Store
    /\ LET args == [user |-> u, recipe |-> pk, fields |-> {},
                    cooking_time |-> 0, tags |-> {}, lines |-> <<>>]
       IN  IF pk \notin recipes
           THEN /\ resp' = Answer("destroy", args, Raised("Http404"))
                /\ UNCHANGED <<storeVars, users, author, ingredientsExist>>
           ELSE IF ~has_object_permission(u, pk)
           THEN /\ resp' = Answer("destroy", args, Raised("PermissionDenied"))
                /\ UNCHANGED <<storeVars, users, author, ingredientsExist>>
           ELSE /\ Delete({}, {pk}, {})
                /\ resp' = Answer("destroy", args, MixinResponse(204))
                /\ UNCHANGED <<tagsExist, cooking_time>>
    /\ UNCHANGED <<upd, renderVars, drfConstraintValidators, racers, tbl>>

\* UserAdmin: a User row is deleted
UserAdmin_delete(u) ==
    /\ upd = Null
    /\ u \in users
    /\ before' = Store
    /\ Delete({u}, {}, {})
    /\ resp' = Answer("UserAdmin_delete", <<u>>, [status |-> 302, exc |-> "none"])
    /\ UNCHANGED <<tagsExist, cooking_time, upd, renderVars, drfConstraintValidators,
                   racers, tbl>>

\* IngredientAdmin: an Ingredient row is deleted
IngredientAdmin_delete(i) ==
    /\ upd = Null
    /\ i \in ingredientsExist
    /\ before' = Store
    /\ Delete({}, {}, {i})
    /\ resp' = Answer("IngredientAdmin_delete", <<i>>, [status |-> 302, exc |-> "none"])
    /\ UNCHANGED <<tagsExist, cooking_time, upd, renderVars, drfConstraintValidators,
                   racers, tbl>>

\* a store in which every user has every recipe in the favorites and in the
\* cart and follows every other user
InitCascade ==
    /\ tagsExist = TagIds
    /\ recipes = RecipeIds
    /\ cooking_time = [r \in RecipeIds |-> 1]
    /\ rtags = [r \in RecipeIds |-> {1}]
    /\ rows = FixtureRows
    /\ favorites = Users \X RecipeIds
    /\ carts = Users \X RecipeIds
    /\ subs = {p \in Users \X Users : p[1] # p[2]}
    /\ upd = Null
    /\ resp = Null
    /\ queryset = <<>>
    /\ doc = Null
    /\ drfConstraintValidators \in BOOLEAN
    /\ users = Users
    /\ author = FixtureAuthor
    /\ ingredientsExist = IngredientIds
    /\ racers = [c \in Racers |-> Null]
    /\ tbl = {}
    /\ before = Store

NextCascade ==
    \/ \E u \in users, pk \in RecipeIds : favorite_POST(u, pk)
    \/ \E u \in users, pk \in RecipeIds : shopping_cart_POST(u, pk)
    \/ \E u \in users, id \in Users : SubscribeView_post(u, id)
    \/ \E u \in users, pk \in RecipeIds : RecipeViewSet_destroy(u, pk)
    \/ \E u \in Users : UserAdmin_delete(u)
    \/ \E i \in IngredientIds : IngredientAdmin_delete(i)

SpecCascade == InitCascade /\ [][NextCascade]_vars

\* ------------------------------------------ recipe update and delete
\* the authenticated users whose PATCH and DELETE requests are followed: the
\* authors of recipe 1 and of recipe 2
OwnerClients == {1, 2}

OwnerBodies ==
    {b \in PatchBodies : Len(b.lines) <= 1 /\ b.fields # AllFields}

NextOwner ==
    \/ \E u \in OwnerClients \cap users, pk \in RecipeIds \cup {MissingRecipeId} :
          \E b \in {x \in OwnerBodies : PatchBodyNormal(pk, x)} :
          RecipeViewSet_partial_update(u, pk, b.fields, b.cooking_time, b.tags, b.lines)
    \/ RecipeViewSet_update_m2m
    \/ \E u \in OwnerClients \cap users, pk \in RecipeIds \cup {MissingRecipeId} :
          RecipeViewSet_destroy(u, pk)

SpecOwner == InitFixture /\ [][NextOwner]_vars

\* ------------------------------- create and update requests of one author
\* The Create and Update requests of the author of recipe 1, on that recipe
\* and on an id that no recipe carries, with bodies of up to two ingredient
\* lines; no other request runs in between.
PatchLineSeqs == {x \in LineSeqs : Len(x) <= 2}

PatchCreateBodies ==
    {[cooking_time |-> 1, tags |-> {1}, lines |-> l] : l \in PatchLineSeqs}
    \cup {[cooking_time |-> ct, tags |-> t, lines |-> <<[id |-> 1, amount |-> 1]>>] :
             ct \in CookingTimeInputs, t \in TagInputs}

PatchUpdateBodies ==
    {b \in PatchBodies : b.lines \in PatchLineSeqs /\ b.fields # AllFields}
    \cup {[fields |-> AllFields, cooking_time |-> ct, tags |-> {}, lines |-> l] :
             ct \in CookingTimeInputs, l \in {x \in LineSeqs : Len(x) <= 1}}

NextPatch ==
    \/ \E u \in RecipeClients \cap users, b \in PatchCreateBodies :
          RecipeViewSet_create(u, b.cooking_time, b.tags, b.lines)
    \/ \E u \in RecipeClients \cap users, pk \in {1, MissingRecipeId} :
          \E b \in {x \in PatchUpdateBodies : PatchBodyNormal(pk, x)} :
          RecipeViewSet_partial_update(u, pk, b.fields, b.cooking_time, b.tags, b.lines)
    \/ RecipeViewSet_update_m2m

SpecPatch == InitFixture /\ [][NextPatch]_vars

\* ------------------------------------------------------- reading a recipe
\* request.user.is_anonymous
Anonymous == 0

\* a flag that looks for the recipe in the favorites of any user
get_is_favorited_any_user(viewer, obj) ==
    viewer # Anonymous /\ \E p \in favorites : p[2] = obj

\* RecipeSerializer.get_is_favorited
get_is_favorited(viewer, obj) ==
    IF viewer = Anonymous
    THEN FALSE
    ELSE \E p \in favorites : p[1] = viewer /\ p[2] = obj

\* RecipeSerializer.get_is_in_shopping_cart
get_is_in_shopping_cart(viewer, obj) ==
    IF viewer = Anonymous
    THEN FALSE
    ELSE \E p \in carts : p[1] = viewer /\ p[2] = obj

\* GET /recipes/{id}/: RetrieveModelMixin.retrieve with RecipeSerializer; the
\* permission admits the anonymous viewer for a safe method
RecipeViewSet_retrieve(viewer, pk) ==
    /\ before' = Store
    /\ resp' = IF pk \notin recipes
               THEN Answer("retrieve", <<viewer, pk>>, Raised("Http404"))
               ELSE [kind |-> "resp", op |-> "retrieve", args |-> <<viewer, pk>>,
                     status |-> 200, exc |-> "none",
                     is_favorited |-> get_is_favorited(viewer, pk),
                     is_in_shopping_cart |-> get_is_in_shopping_cart(viewer, pk)]
    /\ UNCHANGED <<storeVars, upd, renderVars, drfConstraintValidators,
                   users, author, ingredientsExist, racers, tbl>>

\* the users whose favorites and carts are followed next to the viewers
FlagUsers == {1, 2}

NextFlags ==
    \/ \E u \in FlagUsers \cap users, pk \in RecipeIds : favorite_POST(u, pk)
    \/ \E u \in FlagUsers \cap users, pk \in RecipeIds : favorite_DELETE(u, pk)
    \/ \E u \in FlagUsers \cap users, pk \in RecipeIds : shopping_cart_POST(u, pk)
    \/ \E u \in FlagUsers \cap users, pk \in RecipeIds : shopping_cart_DELETE(u, pk)
    \/ \E viewer \in (FlagUsers \cap users) \cup {Anonymous},
          pk \in RecipeIds \cup {MissingRecipeId} : RecipeViewSet_retrieve(viewer, pk)

SpecFlags == InitFixture /\ [][NextFlags]_vars

\* ------------------------------------------------------- the whole service
Init == InitFixture

Next ==
    \/ NextRecipe
    \/ NextToggle
    \/ NextSubscribe
    \/ NextExport
    \/ NextRender
    \/ NextRace
    \/ NextCascade
    \/ NextOwner
    \/ NextPatch
    \/ NextFlags

Spec == Init /\ [][Next]_vars

\* ================================================================ claims

\* a request body the recipe contract accepts: amounts > 0, pairwise distinct
\* ingredient ids, existing ingredients and tags, cooking time >= 1
ContractValid(a, st) ==
    /\ "ingredients" \in a.fields =>
          /\ ~HasRepeatedId(a.lines)
          /\ \A i \in 1..Len(a.lines) :
                a.lines[i].amount > 0 /\ a.lines[i].id \in IngredientIds
    /\ "tags" \in a.fields => a.tags \subseteq st.tagsExist
    /\ "cooking_time" \in a.fields => a.cooking_time >= 1

IsResp(op) == resp.kind = "resp" /\ resp.op = op

\* C1: a Create whose ingredient lines have pairwise distinct ingredient ids and
\* amounts > 0, with existing tags and ingredients and cooking time >= 1,
\* succeeds, and the RecipeIngredient rows of the new recipe are exactly the
\* (ingredientId, amount) pairs of the input.
C1_CreateRoundTrip ==
    (IsResp("create") /\ Len(resp.args.lines) > 0 /\ ContractValid(resp.args, before))
    => /\ resp.status = 201
       /\ \E r \in recipes \ before.recipes : PairsOf(r) = LinePairs(resp.args.lines)

\* C2: a Create in which some ingredient id occurs more than once fails with
\* ValidationError, whatever the amounts, and creates no Recipe and no
\* RecipeIngredient row.
C2_RepeatedIdRejected ==
    (IsResp("create") /\ HasRepeatedId(resp.args.lines))
    => /\ resp.exc = "ValidationError"
       /\ recipes = before.recipes
       /\ rows = before.rows

\* C3: an Update of an existing recipe with contract-valid ingredient lines L2
\* leaves the recipe with exactly the rows L2: no prior row outside L2 remains.
C3_UpdateReplacesRows ==
    (/\ IsResp("partial_update")
     /\ "ingredients" \in resp.args.fields
     /\ resp.args.recipe \in before.recipes
     /\ Len(resp.args.lines) > 0
     /\ ContractValid(resp.args, before))
    => PairsOf(resp.args.recipe) = LinePairs(resp.args.lines)

\* C4: recipe Create and Update are atomic: a request that failed left the
\* recipe rows, ingredient rows and cooking times as it found them, and while
\* an Update is between its writes no other request can see part of them.
C4_Atomic ==
    /\ ((IsResp("create") \/ IsResp("partial_update")) /\ resp.status >= 400)
       => /\ recipes = before.recipes
          /\ rows = before.rows
          /\ cooking_time = before.cooking_time
    /\ upd # Null => cooking_time = before.cooking_time

\* the aggregate the export contract asks for: one row per ingredient of the
\* recipes in the user's cart, with the sum of its amounts
ContractAggregate(u) ==
    {[name |-> IngredientName(i), unit |-> IngredientUnit(i),
      total_amount |-> SumAmounts({x \in CartRows(u) : x.ingredient = i})] :
       i \in {x.ingredient : x \in CartRows(u)}}

\* C5: Aggregate(user) returns exactly one row per distinct ingredient of the
\* recipes in that user's shopping cart, with the sum of that ingredient's
\* amounts over those recipes.
C5_AggregateGroupBySum ==
    (IsResp("download_ingredients_pdf") /\ CartRows(resp.args[1]) # {})
    => /\ resp.exc # "FieldError"
       /\ {queryset[i] : i \in 1..Len(queryset)} = ContractAggregate(resp.args[1])
       /\ Len(queryset) = Cardinality(ContractAggregate(resp.args[1]))

\* C6: for a user whose shopping cart is empty the download completes with a
\* file response carrying the 'cart is empty' message; it never ends in an
\* error or without a response.
C6_EmptyCartDownload ==
    (/\ IsResp("download_ingredients_pdf") \/ IsResp("download_shopping_cart")
     /\ \A r \in RecipeIds : <<resp.args[1], r>> \notin carts)
    => /\ resp.status = 200
       /\ doc # Null
       /\ doc.emptyText

\* C7: Render emits one line per aggregate row: an aggregate of N rows gives a
\* document with exactly N ingredient lines, and the 'cart is empty' text is
\* not drawn when N > 0.
C7_RenderOneLinePerRow ==
    (doc # Null /\ Len(queryset) > 0)
    => /\ doc.lines = queryset
       /\ ~doc.emptyText

\* C8: Add(user, recipe) on a pair that is absent succeeds (201) and creates the
\* row; on a pair that is present it fails with 400 and leaves the store
\* unchanged, for favorites and for the shopping cart.
C8_AddTwice ==
    /\ IsResp("favorite_POST") /\ resp.args[2] \in recipes =>
          IF <<resp.args[1], resp.args[2]>> \in before.favorites
          THEN resp.status = 400 /\ Store = before
          ELSE resp.status = 201 /\ favorites = before.favorites \cup {<<resp.args[1], resp.args[2]>>}
    /\ IsResp("shopping_cart_POST") /\ resp.args[2] \in recipes =>
          IF <<resp.args[1], resp.args[2]>> \in before.carts
          THEN resp.status = 400 /\ Store = before
          ELSE resp.status = 201 /\ carts = before.carts \cup {<<resp.args[1], resp.args[2]>>}

\* C9: Remove(user, recipe) answers 404 and changes nothing when the pair is
\* absent, and otherwise deletes exactly that pair and answers 204, on the
\* favorite endpoint and on the shopping_cart endpoint.
C9_Remove ==
    /\ IsResp("favorite_DELETE") /\ resp.args[2] \in recipes =>
          IF <<resp.args[1], resp.args[2]>> \in before.favorites
          THEN resp.status = 204 /\ favorites = before.favorites \ {<<resp.args[1], resp.args[2]>>}
          ELSE resp.status = 404 /\ Store = before
    /\ IsResp("shopping_cart_DELETE") /\ resp.args[2] \in recipes =>
          IF <<resp.args[1], resp.args[2]>> \in before.carts
          THEN resp.status = 204 /\ carts = before.carts \ {<<resp.args[1], resp.args[2]>>}
          ELSE resp.status = 404 /\ Store = before

\* C10: Subscribe(user, author) with user = author fails with ValidationError
\* (HTTP 400), and no Subscription row ever has user equal to author.
C10_NoSelfSubscription ==
    /\ (IsResp("subscribe_POST") /\ resp.args[1] = resp.args[2])
       => resp.status = 400 /\ resp.exc = "ValidationError"
    /\ \A p \in subs : p[1] # p[2]

\* C11: under every interleaving of concurrent Add (or Subscribe) requests, each
\* of which checks and then inserts, no table ever holds two rows of one
\* (user, target) pair, and of the requests for one pair at most one has its
\* row saved (and so at most one can answer 201).
C11_UniqueUnderRace ==
    /\ \A x, y \in tbl :
          (x.model = y.model /\ x.user = y.user /\ x.target = y.target) => x = y
    /\ \A c, d \in Racers :
          (/\ c # d
           /\ racers[c].kind = "done" /\ racers[d].kind = "done"
           /\ racers[c].model = racers[d].model
           /\ racers[c].user = racers[d].user
           /\ racers[c].target = racers[d].target
           /\ racers[c].saved)
          => ~racers[d].saved /\ racers[d].status # 201

\* two Subscribe requests for one pair both passed the validator's lookup; one
\* saved its row and the other was stopped by the table's constraint
C11_RaceLost ==
    \E c, d \in Racers :
        /\ c # d
        /\ racers[c].kind = "done" /\ racers[d].kind = "done"
        /\ racers[c].model = "Subscription" /\ racers[d].model = "Subscription"
        /\ racers[c].user = racers[d].user
        /\ racers[c].target = racers[d].target
        /\ racers[c].user # racers[c].target
        /\ racers[c].saved
        /\ racers[d].exc = "IntegrityError"

\* C12: a DELETE of a recipe, or a PATCH with a valid body that carries a
\* cooking time, by an authenticated user who is not the recipe's author is
\* answered 403 and leaves the recipe, its cooking time, its tags
\* and its ingredient rows as they were.
C12_AuthorOnly ==
    (/\ \/ /\ IsResp("partial_update")
           /\ "cooking_time" \in resp.args.fields
           /\ ContractValid(resp.args, before)
        \/ IsResp("destroy")
     /\ resp.args.recipe \in before.recipes
     /\ before.author[resp.args.recipe] # resp.args.user)
    => /\ resp.status = 403
       /\ recipes = before.recipes
       /\ cooking_time = before.cooking_time
       /\ rtags = before.rtags
       /\ rows = before.rows

\* C13: in every state reached through Create and Update requests each recipe
\* has at most one RecipeIngredient row per ingredient, every amount is > 0 and
\* every cooking time is >= 1; and a Create, or an Update of an existing
\* recipe, that carries an amount <= 0 or a cooking time < 1 fails with
\* ValidationError.
C13_RecipeInvariants ==
    /\ \A r \in recipes : cooking_time[r] >= 1
    /\ \A x \in rows : x.amount > 0
    /\ \A x, y \in rows :
          (x.recipe = y.recipe /\ x.ingredient = y.ingredient) => x = y
    /\ (/\ IsResp("create") \/ (IsResp("partial_update") /\ resp.args.recipe \in before.recipes)
        /\ \/ /\ "ingredients" \in resp.args.fields
              /\ \E i \in 1..Len(resp.args.lines) : resp.args.lines[i].amount <= 0
           \/ /\ "cooking_time" \in resp.args.fields
              /\ resp.args.cooking_time < 1)
       => resp.exc = "ValidationError" /\ resp.status = 400

\* an Update has written a new cooking time, and a later Update of the same
\* recipe that carried cooking time 0 was refused
C13_Refused ==
    /\ IsResp("partial_update")
    /\ resp.args.recipe \in recipes
    /\ "cooking_time" \in resp.args.fields
    /\ resp.args.cooking_time < 1
    /\ resp.exc = "ValidationError"
    /\ cooking_time[resp.args.recipe] > 1

\* C14: the flags a recipe is read with say whether the viewer's own Favorite
\* row and ShoppingCart row for that recipe exist: they are false for the
\* anonymous viewer and do not depend on the rows of other users.
C14_FlagsMatchRows ==
    (IsResp("retrieve") /\ resp.args[2] \in recipes)
    => /\ resp.status = 200
       /\ resp.is_favorited =
             (resp.args[1] # Anonymous /\ <<resp.args[1], resp.args[2]>> \in favorites)
       /\ resp.is_in_shopping_cart =
             (resp.args[1] # Anonymous /\ <<resp.args[1], resp.args[2]>> \in carts)

\* a viewer reads a recipe that is in another user's favorites and not in
\* the viewer's own, and in the viewer's own cart: the flags are false and true
C14_OtherUsersRow ==
    /\ IsResp("retrieve")
    /\ resp.status = 200
    /\ resp.args[1] # Anonymous
    /\ \E p \in favorites : p[2] = resp.args[2] /\ p[1] # resp.args[1]
    /\ <<resp.args[1], resp.args[2]>> \notin favorites
    /\ <<resp.args[1], resp.args[2]>> \in carts
    /\ ~resp.is_favorited
    /\ resp.is_in_shopping_cart

\* C15: every RecipeIngredient, Favorite, ShoppingCart and Subscription row, and
\* every recipe's author, refers to a recipe, ingredient or user that exists:
\* deleting a recipe or a user takes the rows that refer to it along, and no
\* row is left with a dangling or null reference.
C15_NoDangling ==
    /\ \A r \in recipes : author[r] \in users
    /\ \A x \in rows : x.recipe \in recipes /\ x.ingredient \in ingredientsExist
    /\ \A p \in favorites : p[1] \in users /\ p[2] \in recipes
    /\ \A p \in carts : p[1] \in users /\ p[2] \in recipes
    /\ \A p \in subs : p[1] \in users /\ p[2] \in users

\* a user who had a recipe, favorites, cart entries, followers and followed
\* authors has been deleted, and a recipe with ingredient rows, favorites and
\* cart entries of other users went with the user
C15_UserDeleted ==
    /\ IsResp("UserAdmin_delete")
    /\ \E r \in before.recipes :
          /\ before.author[r] = resp.args[1]
          /\ r \notin recipes
          /\ \E x \in before.rows : x.recipe = r
          /\ \E p \in before.favorites : p[2] = r /\ p[1] # resp.args[1]
          /\ \E p \in before.carts : p[2] = r /\ p[1] # resp.args[1]
    /\ \E p \in before.subs : p[1] = resp.args[1]
    /\ \E p \in before.subs : p[2] = resp.args[1]

\* C16: Subscribe(user, author) with user # author answers 400 and changes
\* nothing when the subscription exists and otherwise creates exactly that
\* row; Unsubscribe(user, author) answers 404 and changes nothing when the
\* subscription is absent and otherwise deletes exactly that row.
C16_SubscribeUnsubscribe ==
    /\ (/\ IsResp("subscribe_POST")
        /\ resp.args[2] \in users
        /\ resp.args[1] # resp.args[2])
       => IF <<resp.args[1], resp.args[2]>> \in before.subs
          THEN resp.status = 400 /\ Store = before
          ELSE subs = before.subs \cup {<<resp.args[1], resp.args[2]>>}
    /\ (IsResp("subscribe_DELETE") /\ resp.args[2] \in users)
       => IF <<resp.args[1], resp.args[2]>> \in before.subs
          THEN subs = before.subs \ {<<resp.args[1], resp.args[2]>>}
          ELSE resp.status = 404 /\ Store = before

\* C17: an Update that supplies no ingredient lines leaves the recipe's
\* RecipeIngredient rows as they were, and an Update that supplies no tags
\* leaves the recipe's tag set as it was.
C17_PartialUpdateFrame ==
    (IsResp("partial_update") /\ resp.args.recipe \in before.recipes)
    => /\ "ingredients" \notin resp.args.fields
          => RowsOf(resp.args.recipe) = {x \in before.rows : x.recipe = resp.args.recipe}
       /\ "tags" \notin resp.args.fields
          => rtags[resp.args.recipe] = before.rtags[resp.args.recipe]

\* an Update that supplied the cooking time alone has changed it, on a recipe
\* that has ingredient rows and tags
C17_CookingTimeOnly ==
    /\ IsResp("partial_update")
    /\ resp.args.recipe \in recipes
    /\ resp.args.fields = {"cooking_time"}
    /\ cooking_time[resp.args.recipe] # before.cooking_time[resp.args.recipe]
    /\ RowsOf(resp.args.recipe) # {}
    /\ rtags[resp.args.recipe] # {}

====
